---- MODULE Spec2Model ----
(***************************************************************************)
(* A model of the axicov-sdk tool-registry resolver                        *)
(* (exportToolsAndSetMetadata), of Agent.initialize and of                 *)
(* Agent.messageAgent / Agent.orchestrate.                                 *)
(*                                                                         *)
(* The sources hold three Agent classes, which all hand themselves to the  *)
(* same resolver:                                                          *)
(*   "env"  src/src/agent/index.ts 13-258 : tools is an object map, the    *)
(*          model comes from the environment, orchestrate returns a react  *)
(*          agent or false and messageAgent invokes it;                    *)
(*   "ctx"  src/src/agent/index.ts 272-466: tools is an array, the thread  *)
(*          context variant, no orchestrate;                               *)
(*   "inj"  src/unnamed/part_001          : tools is an object map, the    *)
(*          model is injected, orchestrate returns a tool list.            *)
(***************************************************************************)
EXTENDS Integers, Sequences, FiniteSets, TLC

\* ------------------------------------------------------------------ bounds
\* longest coreRegistry list the caller passes
MaxCore == 1
\* longest allRegistry list the caller passes
MaxAll == 2
\* longest toolNumbers list the caller passes
MaxSel == 2
\* number of Agent.initialize calls on the one Agent
MaxRuns == 2
\* factory invocations over the life of the one Agent
MaxCalls == 2
\* longest list of names in a model reply
MaxNames == 2

\* requests the server takes up
MaxRequests == 4

\* further messageAgent calls overlapping the one followed step by step
MaxOthers == 1

\* ------------------------------------------------------------ JS values
\* the value undefined, where a Tool object could stand
Undefined == [undefined |-> TRUE]

Variants == {"env", "ctx", "inj"}

\* the Agent classes whose tools field is an object map / an array
MapVariants == {"env", "inj"}

\* ------------------------------------------------------- tool factories
\* The caller-supplied factories the model draws registries from:
\*   fA resolves to {tools: [X], schema: {x: descriptor of X}}
\*   fB rejects (throws)
\*   fC resolves to {tools: [X], schema: {x: another descriptor of X}}: a
\*      second factory declaring the name X
\*   fD resolves to {tools: [Y], schema: {y: descriptor of Y, z: null}}:
\*      a result whose processing throws at the null schema entry
Factories == {"fA", "fB", "fC", "fD"}

\* a descriptor that leaves the optional requiresApproval out
DescX == [name |-> "X", description |-> "dX"]

\* a schema entry that is null
NullItem == [null |-> TRUE]

DescX2 == [name |-> "X", description |-> "dX2", requiresApproval |-> FALSE]

DescY == [name |-> "Y", description |-> "dY", requiresApproval |-> TRUE]

FactoryResult(f) ==
    CASE f = "fA" -> [throws |-> FALSE, tools |-> <<"X">>, schema |-> <<DescX>>]
      [] f = "fB" -> [throws |-> TRUE, tools |-> <<>>, schema |-> <<>>]
      [] f = "fC" -> [throws |-> FALSE, tools |-> <<"X">>, schema |-> <<DescX2>>]
      [] f = "fD" -> [throws |-> FALSE, tools |-> <<"Y">>, schema |-> <<DescY, NullItem>>]

\* the Tool object a factory builds for one of its names
MkTool(f, n) == [name |-> n, by |-> f]

ToolsOf(f) == [i \in 1..Len(FactoryResult(f).tools) |-> MkTool(f, FactoryResult(f).tools[i])]

\* ------------------------------------------------------- pure helpers
SeqsUpTo(S, n) == UNION {[1..k -> S] : k \in 0..n}

Range(s) == {s[i] : i \in 1..Len(s)}

\* Array.prototype.filter with an index predicate
RECURSIVE FilterIdx(_, _, _)
FilterIdx(arr, sel, i) ==
    IF i > Len(arr) THEN <<>>
    ELSE IF (i - 1) \in Range(sel)
         THEN <<arr[i]>> \o FilterIdx(arr, sel, i + 1)
         ELSE FilterIdx(arr, sel, i + 1)

\* the selected factories put before the core ones
EffectiveFilteredFirst(core, all, sel) == FilterIdx(all, sel, 1) \o core

\* the list the resolver maps over: coreRegistry.concat(allRegistry.filter(..))
EffectiveFactories(core, all, sel) == core \o FilterIdx(all, sel, 1)

\* the template string pushed for one schema entry
Summary(item) ==
    [toolName |-> item.name,
     toolDescription |-> item.description,
     requiresApproval |-> IF "requiresApproval" \in DOMAIN item
                          THEN item.requiresApproval
                          ELSE FALSE]

\* Array.prototype.join: the parts with sep between them, as a token list
RECURSIVE Join(_, _)
Join(parts, sep) ==
    IF Len(parts) = 0 THEN <<>>
    ELSE IF Len(parts) = 1 THEN <<parts[1]>>
    ELSE <<parts[1], sep>> \o Join(Tail(parts), sep)

MetaSep == "\n\n"

\* agent.tools.push(...tools): appends to an array; on an object map there
\* is no push, the call throws a TypeError
PushTools(v, arr, ts) ==
    IF v \in MapVariants THEN [threw |-> TRUE, arr |-> arr]
    ELSE [threw |-> FALSE, arr |-> arr \o ts]

\* Object.values(schema).forEach(item => toolMetadata.push(summary)): reading
\* item.name of a null entry throws; the entries before it were pushed
RECURSIVE PushMetadata(_, _)
PushMetadata(meta, schema) ==
    IF Len(schema) = 0 THEN [threw |-> FALSE, meta |-> meta]
    ELSE IF Head(schema) = NullItem THEN [threw |-> TRUE, meta |-> meta]
    ELSE PushMetadata(Append(meta, Summary(Head(schema))), Tail(schema))

\* ------------------------------------------------------ orchestration
\* A model reply is a rejection of model.invoke or a content string; the
\* content is a list of JSON tokens.
Tok(t) == [t |-> t]

Str(n) == [t |-> "str", v |-> n]

\* the names a reply can mention: a tool name (a missing key wherever no
\* tool X is held), a sentinel, and a name every JS object inherits
ReplyNames == {"X", "INVALID_TOOL:X", "toString"}

NameLists == SeqsUpTo(ReplyNames, MaxNames)

RECURSIVE Items(_)
Items(names) ==
    IF Len(names) = 0 THEN <<>>
    ELSE IF Len(names) = 1 THEN <<Str(names[1])>>
    ELSE <<Str(names[1]), Tok(",")>> \o Items(Tail(names))

\* the JSON text of an array of strings
ArrayText(names) == <<Tok("[")>> \o Items(names) \o <<Tok("]")>>

\* the contents the model is taken to answer with: every array of names,
\* the shortest of them cut short before the closing bracket, prose, and
\* a JSON object
ReplyTexts ==
    {ArrayText(n) : n \in NameLists}
    \cup {SubSeq(ArrayText(n), 1, Len(ArrayText(n)) - 1) :
             n \in {m \in NameLists : Len(m) <= 1}}
    \cup {<<Tok("not json")>>, <<Tok("{"), Tok("}")>>}

Replies ==
    {[kind |-> "reject", text |-> <<>>]}
    \cup {[kind |-> "content", text |-> t] : t \in ReplyTexts}

NoReply == [kind |-> "none", text |-> <<>>]

ParseFail == [ok |-> FALSE, array |-> FALSE, names |-> <<>>]

RECURSIVE ParseElems(_, _, _)
ParseElems(text, i, acc) ==
    IF i > Len(text) \/ text[i].t # "str" THEN ParseFail
    ELSE IF i + 1 > Len(text) THEN ParseFail
    ELSE IF text[i + 1].t = "]"
         THEN IF i + 1 = Len(text)
              THEN [ok |-> TRUE, array |-> TRUE, names |-> Append(acc, text[i].v)]
              ELSE ParseFail
    ELSE IF text[i + 1].t = ","
         THEN ParseElems(text, i + 2, Append(acc, text[i].v))
    ELSE ParseFail

\* JSON.parse of the reply content: a syntax error, an array of strings,
\* or another JSON value (here the empty object)
ParseJSON(text) ==
    IF Len(text) = 2 /\ text[1].t = "{" /\ text[2].t = "}"
    THEN [ok |-> TRUE, array |-> FALSE, names |-> <<>>]
    ELSE IF Len(text) < 2 \/ text[1].t # "[" THEN ParseFail
    ELSE IF text[2].t = "]"
         THEN IF Len(text) = 2
              THEN [ok |-> TRUE, array |-> TRUE, names |-> <<>>]
              ELSE ParseFail
    ELSE ParseElems(text, 2, <<>>)

\* property names every plain object inherits from Object.prototype
ProtoNames == {"toString", "constructor"}

\* this.tools[name] on a plain object: an own property, else an inherited
\* one, else undefined
Lookup(map, name) ==
    IF name \in DOMAIN map THEN map[name]
    ELSE IF name \in ProtoNames THEN [inherited |-> name]
    ELSE Undefined

\* toolNames.map((name) => this.tools[name])
PickTools(map, names) == [i \in 1..Len(names) |-> Lookup(map, names[i])]

IsTool(x) == DOMAIN x = {"name", "by"}

NotPicked == [made |-> FALSE, tools |-> <<>>]

\* orchestrate from the settled model call to the list it looks up; a
\* rejected call, a syntax error and a value without .map all throw
Picked(map, reply) ==
    IF reply.kind # "content" THEN NotPicked
    ELSE IF ~ParseJSON(reply.text).ok \/ ~ParseJSON(reply.text).array THEN NotPicked
    ELSE [made |-> TRUE, tools |-> PickTools(map, ParseJSON(reply.text).names)]

\* what orchestrate returns. The env class builds the react agent inside
\* its try and returns it, or false from its catch; the inj class returns
\* the list, or [] from its catch. accepted: whether createReactAgent takes
\* the list (it always takes a list of Tool objects)
OrchestrateReturn(v, picked, accepted) ==
    IF v = "inj"
    THEN [kind |-> "tools", tools |-> picked.tools]
    ELSE IF picked.made /\ accepted
         THEN [kind |-> "agent", tools |-> picked.tools]
         ELSE [kind |-> "false", tools |-> <<>>]

NoOrch == [kind |-> "none", tools |-> <<>>]

NoTurn == [ret |-> "none", tools |-> <<>>, sent |-> <<>>]

\* the resolver throwing when no tool was loaded
ZeroToolsThrows(noTools) == IF noTools THEN "throw" ELSE "log"

\* lines 86-89 of the resolver: when no tool was loaded it only logs
ZeroToolsPolicy(noTools) == "log"

\* agent.tools.length === 0: an object map has no length (undefined === 0)
NoToolsLoaded(v, arr) == v \notin MapVariants /\ Len(arr) = 0

\* ---------------------------------------------------------------- state
VARIABLES
    variant,          \* which Agent class this Agent is
    toolsArr,         \* Agent.tools of the array variant
    toolsMap,         \* Agent.tools of the object-map variants
    toolMetadata,     \* Agent.toolMetadata
    systemPrompt,     \* Agent.systemPrompt
    checkPointSaver,  \* Agent.checkPointSaver
    mongoClient,      \* Agent.mongoClient
    pc,               \* where the operation in flight on the Agent stands
    runs,             \* initialize calls that have returned
    calls,            \* factory invocations so far
    checkPointer,     \* the checkPointer argument, once initialize has read it
    eff,              \* the resolver's mapped list (the factories it invoked)
    results,          \* the wrapper promise of each: pending, item or null
    pendingMeta,      \* the resolver's local toolMetadata array
    order,            \* positions of eff in the order their calls settled
    returned,         \* what the resolver returned to initialize
    okTools,          \* tools declared by the sound factories settled so far
    args,             \* the (coreRegistry, allRegistry, toolNumbers) resolved
    reply,            \* the model's answer to the orchestration in flight
    picked,           \* the list orchestrate looked up for it
    orchOut,          \* what orchestrate returned to messageAgent
    turn,             \* what messageAgent returned to its caller
    checkpointed,     \* the checkpoint saver holds state of this thread
    initOutcome,      \* how the last initialize call settled for its caller
    agents,           \* the server's map of live agents: thread id -> Agent
    objs,             \* the Agent objects the server has constructed
    inflight,         \* the request handlers suspended at an await
    lastResp,         \* the response the server sent last
    served,           \* requests the server has taken up
    passes,           \* model calls orchestrate made for the messageAgent call in flight
    others,           \* further messageAgent calls in flight on the Agent
    threadContext,    \* the ambient thread context of the process
    toolLog           \* the calls made of a createTool tool, with how each settled

vars == <<variant, toolsArr, toolsMap, toolMetadata, systemPrompt,
          checkPointSaver, mongoClient, pc, runs, calls, checkPointer, eff,
          results, pendingMeta, order, returned, okTools, args, reply, picked,
          orchOut, turn, checkpointed, initOutcome, agents, objs, inflight,
          lastResp, served, passes, others, threadContext, toolLog>>

agentVars == <<variant, toolsArr, toolsMap, toolMetadata, systemPrompt,
               checkPointSaver, mongoClient>>

resolverVars == <<eff, results, pendingMeta, order, returned>>

msgVars == <<reply, picked, orchOut, turn, passes, others>>

srvVars == <<agents, objs, inflight, lastResp, served>>

\* no thread context is set
NoContext == "none"

NoResp == [kind |-> "none", tid |-> "none", code |-> 0, error |-> ""]

NoArgs == [core |-> <<>>, all |-> <<>>, sel |-> <<>>, set |-> FALSE]

NotReturned == [done |-> FALSE, list |-> <<>>]

UnsetPrompt == [set |-> FALSE, tools |-> <<>>]

\* the Agent constructors: tools = {} or [], toolMetadata = ""
Init ==
    /\ variant \in Variants
    /\ toolsArr = <<>>
    /\ toolsMap = <<>>
    /\ toolMetadata = <<>>
    /\ systemPrompt = UnsetPrompt
    /\ checkPointSaver = "unset"
    /\ mongoClient = "unset"
    /\ pc = "idle"
    /\ runs = 0
    /\ calls = 0
    /\ checkPointer = "none"
    /\ eff = <<>>
    /\ results = <<>>
    /\ pendingMeta = <<>>
    /\ order = <<>>
    /\ returned = NotReturned
    /\ okTools = {}
    /\ args = NoArgs
    /\ reply = NoReply
    /\ picked = NotPicked
    /\ orchOut = NoOrch
    /\ turn = NoTurn
    /\ checkpointed = FALSE
    /\ initOutcome = "none"
    /\ agents = <<>>
    /\ objs = <<>>
    /\ inflight = {}
    /\ lastResp = NoResp
    /\ served = 0
    /\ passes = 0
    /\ others = 0
    /\ threadContext = NoContext
    /\ toolLog = <<>>

\* the inputs of initialize
CoreLists == SeqsUpTo(Factories, MaxCore)

AllLists == SeqsUpTo(Factories, MaxAll)

SelLists == SeqsUpTo(0..MaxAll, MaxSel)

\* a factory that keeps its contract: its call resolves to a well-formed
\* {tools, schema}
Sound(f) ==
    /\ ~FactoryResult(f).throws
    /\ NullItem \notin Range(FactoryResult(f).schema)

\* Agent.initialize up to the first suspension inside the resolver: the
\* resolver builds the effective list and the map callback calls every
\* factory of it (each callback runs up to its await item(agent))
\* every list the resolver can come to map over, for the arguments above
EffectiveLists ==
    {EffectiveFactories(core, all, sel) :
        core \in CoreLists, all \in AllLists, sel \in SelLists}

\* the thread id the Agent was constructed with
AgentThreadId == "t1"

\* setThreadContext(threadId) makes threadId the ambient thread context
SetThreadContext(threadId) == threadId

\* clearThreadContext() leaves no thread context set
ClearThreadContext == NoContext

\* the thread context after the first statement of initialize: only the
\* thread-context class sets it
ContextAtInitialize(v, ctxt) ==
    IF v = "ctx" THEN SetThreadContext(AgentThreadId) ELSE ctxt

\* the thread context when messageAgent leaves through its try or its
\* outer catch: the thread-context class clears it in both
ContextAtMessageExit(v, ctxt) ==
    IF v = "ctx" THEN ClearThreadContext ELSE ctxt

\* whether the object the class invokes once the thread has saved state
\* can be invoked: the environment class invokes this.agent, which
\* initialize left as the string "", the thread-context class invokes the
\* react agent initialize built
StoredAgentInvocable(v) == v = "ctx"

\* the messages handed to the execution loop
MessagesSent(saved) ==
    IF saved THEN <<"human">> ELSE <<"system", "human">>

StartWith(list) ==
    /\ pc = "idle"
    /\ threadContext' = ContextAtInitialize(variant, threadContext)
    /\ runs < MaxRuns
    /\ eff' = list
    /\ calls' = calls + Len(list)
    /\ results' = [i \in 1..Len(list) |-> "pending"]
    /\ pendingMeta' = <<>>
    /\ order' = <<>>
    /\ returned' = NotReturned
    /\ pc' = "resolving"
    /\ UNCHANGED <<agentVars, runs, checkPointer, okTools, args, msgVars,
                   checkpointed>>
    /\ initOutcome' = "none"
    /\ UNCHANGED srvVars
    /\ UNCHANGED toolLog

InitializeStart ==
    \E list \in EffectiveLists :
        /\ calls + Len(list) <= MaxCalls
        /\ StartWith(list)

\* the same step on arguments recorded beforehand
InitializeStartRecorded ==
    /\ args.set
    /\ StartWith(EffectiveFactories(args.core, args.all, args.sel))

\* an outcome list filled in the order the calls settle
SlotBySettlement(k, ord) == Len(ord) + 1

\* the place of the k-th callback's promise in toolPromises, which
\* Promise.allSettled keeps in the outcome list
OutcomeSlot(k, ord) == k

\* the call of factory k settles and the rest of its map callback runs:
\* lines 32-52 of the resolver
FactorySettle(k) ==
    /\ pc = "resolving"
    /\ k \in 1..Len(eff)
    /\ results[k] = "pending"
    /\ LET r == FactoryResult(eff[k])
           pushed == PushTools(variant, toolsArr, ToolsOf(eff[k]))
           meta == PushMetadata(pendingMeta, r.schema)
       IN
       /\ order' = Append(order, k)
       /\ okTools' = IF Sound(eff[k]) THEN okTools \cup Range(ToolsOf(eff[k]))
                     ELSE okTools
       /\ IF r.throws
          THEN /\ results' = [results EXCEPT ![OutcomeSlot(k, order)] = "null"]
               /\ UNCHANGED <<toolsArr, pendingMeta>>
          ELSE IF pushed.threw
          THEN /\ results' = [results EXCEPT ![OutcomeSlot(k, order)] = "null"]
               /\ UNCHANGED <<toolsArr, pendingMeta>>
          ELSE /\ toolsArr' = pushed.arr
               /\ pendingMeta' = meta.meta
               /\ results' = [results EXCEPT ![OutcomeSlot(k, order)] = IF meta.threw THEN "null" ELSE "item"]
    /\ UNCHANGED <<variant, toolsMap, toolMetadata, systemPrompt, checkPointSaver,
                   mongoClient, pc, runs, calls, checkPointer, eff, returned, args,
                   msgVars, checkpointed>>
    /\ UNCHANGED initOutcome
    /\ UNCHANGED srvVars
    /\ UNCHANGED <<threadContext, toolLog>>

\* a wait that ends with the first call to settle
FirstSettled == \E i \in 1..Len(results) : results[i] # "pending"

\* Promise.allSettled(toolPromises) has resolved
AllSettled == \A i \in 1..Len(results) : results[i] # "pending"

\* Promise.allSettled resolves and the resolver runs to its return:
\* lines 57-95
ResolverFinish ==
    /\ pc = "resolving"
    /\ AllSettled
    /\ toolMetadata' = Join(pendingMeta, MetaSep)
    /\ returned' = IF ZeroToolsPolicy(NoToolsLoaded(variant, toolsArr)) = "throw"
                   THEN [done |-> TRUE, list |-> <<>>]
                   ELSE [done |-> TRUE, list |-> results]
    /\ pc' = "resolved"
    /\ UNCHANGED <<variant, toolsArr, toolsMap, systemPrompt, checkPointSaver,
                   mongoClient, runs, calls, checkPointer, eff, results,
                   pendingMeta, order, okTools, args, msgVars, checkpointed>>
    /\ UNCHANGED initOutcome
    /\ UNCHANGED srvVars
    /\ UNCHANGED <<threadContext, toolLog>>

\* How initialize settles for its caller.  The inner catch of the mongo
\* branch rethrows "MongoDB connection failed", the outer catch of
\* initialize logs it and returns: the promise resolves either way.
InitializeOutcome(connected) == "resolved"

\* initialize resumes after the resolver: it builds the prompt and selects
\* the checkpoint saver; the resolver's locals and return value are dropped.
\* The checkPointer argument is first read here, so it is drawn here.
InitializeContinue(cpArg) ==
    /\ pc = "resolved"
    /\ systemPrompt' = [set |-> TRUE, tools |-> toolMetadata]
    /\ IF cpArg = "mongo"
       THEN /\ mongoClient' = "client"
            /\ pc' = "connecting"
            /\ checkPointer' = cpArg
            /\ UNCHANGED <<checkPointSaver, runs, checkpointed>>
       ELSE /\ checkPointSaver' = "memory"
            /\ checkpointed' = FALSE
            /\ pc' = "idle"
            /\ runs' = runs + 1
            /\ checkPointer' = "none"
            /\ UNCHANGED mongoClient
    /\ eff' = <<>>
    /\ results' = <<>>
    /\ pendingMeta' = <<>>
    /\ order' = <<>>
    /\ returned' = NotReturned
    /\ UNCHANGED <<variant, toolsArr, toolsMap, toolMetadata, calls, okTools, args,
                   msgVars>>
    /\ initOutcome' = IF cpArg = "mongo" THEN initOutcome ELSE InitializeOutcome(TRUE)
    /\ UNCHANGED srvVars
    /\ UNCHANGED <<threadContext, toolLog>>

\* mongoClient.connect() settles: on success the MongoDB saver is selected,
\* on failure the error is rethrown and the outer catch of initialize logs it
MongoConnectSettle(ok) ==
    /\ pc = "connecting"
    /\ checkPointSaver' = IF ok THEN "mongo" ELSE checkPointSaver
    /\ pc' = "idle"
    /\ runs' = runs + 1
    /\ checkPointer' = "none"
    /\ UNCHANGED <<variant, toolsArr, toolsMap, toolMetadata, systemPrompt,
                   mongoClient, calls, resolverVars, okTools, args, msgVars,
                   checkpointed>>
    /\ initOutcome' = InitializeOutcome(ok)
    /\ UNCHANGED srvVars
    /\ UNCHANGED <<threadContext, toolLog>>

initVars == <<runs, calls, checkPointer, resolverVars, okTools, args,
              initOutcome>>

\* messageAgent is called: orchestrate builds its prompt from the keys of
\* tools and awaits model.invoke
MessageAgentStart ==
    /\ pc = "idle"
    /\ variant \in MapVariants
    /\ pc' = "orchestrating"
    /\ reply' = NoReply
    /\ picked' = NotPicked
    /\ orchOut' = NoOrch
    /\ turn' = NoTurn
    /\ passes' = 1
    /\ UNCHANGED <<agentVars, initVars, checkpointed, others>>
    /\ UNCHANGED srvVars
    /\ UNCHANGED <<threadContext, toolLog>>

\* an orchestrate that asks the model again when its pass failed
RetryFailedPass(made) == IF made THEN "orchestrated" ELSE "orchestrating"

\* where orchestrate stands after its one model call has settled: it
\* returns from its try or from its catch
AfterOrchestrate(made) == "orchestrated"

\* an orchestrate that keeps only the tools it picked on the Agent
OrchestrateSettleKeeping(r, accepted) ==
    /\ pc = "orchestrating"
    /\ reply' = r
    /\ picked' = Picked(toolsMap, r)
    /\ accepted
    /\ orchOut' = OrchestrateReturn(variant, picked', accepted)
    /\ pc' = "orchestrated"
    /\ toolsMap' = [n \in {m \in DOMAIN toolsMap :
                              \E i \in 1..Len(picked'.tools) :
                                  picked'.tools[i] = toolsMap[m]} |-> toolsMap[n]]
    /\ UNCHANGED <<variant, toolsArr, toolMetadata, systemPrompt,
                   checkPointSaver, mongoClient, initVars, turn, checkpointed,
                   passes, others, srvVars, threadContext, toolLog>>

\* model.invoke settles and orchestrate runs to its return
OrchestrateSettle(r, accepted) ==
    /\ pc = "orchestrating"
    /\ reply' = r
    /\ picked' = Picked(toolsMap, r)
    /\ \/ accepted
       \/ /\ variant = "env"
          /\ \E i \in 1..Len(picked'.tools) : ~IsTool(picked'.tools[i])
    /\ orchOut' = OrchestrateReturn(variant, picked', accepted)
    /\ pc' = AfterOrchestrate(picked'.made)
    /\ passes' = IF pc' = "orchestrating" THEN passes + 1 ELSE passes
    /\ UNCHANGED <<agentVars, initVars, turn, checkpointed, others>>
    /\ UNCHANGED srvVars
    /\ UNCHANGED <<threadContext, toolLog>>

\* messageAgent resumes with what orchestrate returned.
\* inj: it builds the react agent over the list and returns it, or returns
\*      the error createReactAgent threw.
\* env: false makes it throw "Agent failed", which its catch logs, and it
\*      returns undefined; an agent makes it await checkPointSaver.get
MessageAgentResume(accepted) ==
    /\ pc = "orchestrated"
    /\ \/ accepted
       \/ /\ variant = "inj"
          /\ \E i \in 1..Len(orchOut.tools) : ~IsTool(orchOut.tools[i])
    /\ IF variant = "inj"
       THEN /\ turn' = IF accepted
                       THEN [ret |-> "agent", tools |-> orchOut.tools, sent |-> <<>>]
                       ELSE [ret |-> "error", tools |-> <<>>, sent |-> <<>>]
            /\ pc' = "returned"
       ELSE IF orchOut.kind = "false"
       THEN /\ turn' = [ret |-> "undefined", tools |-> <<>>, sent |-> <<>>]
            /\ pc' = "returned"
       ELSE /\ pc' = "reading"
            /\ UNCHANGED turn
    /\ UNCHANGED <<agentVars, initVars, reply, picked, orchOut, checkpointed,
                   passes, others>>
    /\ UNCHANGED srvVars
    /\ UNCHANGED <<threadContext, toolLog>>

\* the thread-context class: messageAgent is called; it sets the thread
\* context and awaits checkPointSaver.get
CtxMessageStart ==
    /\ pc = "idle"
    /\ variant = "ctx"
    /\ threadContext' = SetThreadContext(AgentThreadId)
    /\ pc' = "reading"
    /\ reply' = NoReply
    /\ picked' = NotPicked
    /\ orchOut' = NoOrch
    /\ turn' = NoTurn
    /\ passes' = 0
    /\ UNCHANGED <<agentVars, initVars, checkpointed, others>>
    /\ UNCHANGED srvVars
    /\ UNCHANGED toolLog

\* checkPointSaver.get settles. Without a saver the read throws; with
\* saved state the environment class calls this.agent.invoke, and
\* this.agent is "": both end in the catches and messageAgent returns
\* undefined. Otherwise the execution loop is invoked: without saved state
\* with the system prompt and the message, with saved state (thread-context
\* class) with the message alone
CheckpointRead ==
    /\ pc = "reading"
    /\ IF \/ checkPointSaver = "unset"
          \/ checkpointed /\ ~StoredAgentInvocable(variant)
       THEN /\ turn' = [ret |-> "undefined", tools |-> <<>>, sent |-> <<>>]
            /\ pc' = "returned"
            /\ threadContext' = ContextAtMessageExit(variant, threadContext)
       ELSE /\ pc' = "invoking"
            /\ UNCHANGED <<turn, threadContext>>
    /\ UNCHANGED <<agentVars, initVars, reply, picked, orchOut, checkpointed,
                   passes, others>>
    /\ UNCHANGED srvVars
    /\ UNCHANGED toolLog

\* the tools of the execution loop invoked: the environment class builds
\* it from what orchestrate returned, the thread-context class built it
\* at initialize over this.tools
LoopTools(v) == IF v = "ctx" THEN toolsArr ELSE orchOut.tools

\* agent.invoke settles; a run of the loop checkpoints the exchange
InvokeSettle(ok) ==
    /\ pc = "invoking"
    /\ turn' = IF ok
               THEN [ret |-> "content", tools |-> LoopTools(variant),
                     sent |-> MessagesSent(checkpointed)]
               ELSE [ret |-> "undefined", tools |-> <<>>, sent |-> <<>>]
    /\ threadContext' = ContextAtMessageExit(variant, threadContext)
    /\ checkpointed' = (checkpointed \/ ok)
    /\ pc' = "returned"
    /\ UNCHANGED <<agentVars, initVars, reply, picked, orchOut, passes, others>>
    /\ UNCHANGED srvVars
    /\ UNCHANGED toolLog

\* the caller of messageAgent resumes with the returned value
CallerResume ==
    /\ pc = "returned"
    /\ pc' = "idle"
    /\ reply' = NoReply
    /\ picked' = NotPicked
    /\ orchOut' = NoOrch
    /\ turn' = NoTurn
    /\ passes' = 0
    /\ UNCHANGED <<agentVars, initVars, checkpointed, others>>
    /\ UNCHANGED srvVars
    /\ UNCHANGED <<threadContext, toolLog>>

\* another messageAgent call on the same Agent enters orchestrate while
\* calls are in flight; it reads the keys of tools for its prompt
OtherCallStart ==
    /\ variant \in MapVariants
    /\ others < MaxOthers
    /\ others' = others + 1
    /\ UNCHANGED <<agentVars, initVars, reply, picked, orchOut, turn, passes,
                   pc, checkpointed, srvVars, threadContext, toolLog>>

\* its model call settles and it runs through the lookup in tools to its
\* return
OtherCallSettle ==
    /\ others > 0
    /\ others' = others - 1
    /\ UNCHANGED <<agentVars, initVars, reply, picked, orchOut, turn, passes,
                   pc, checkpointed, srvVars, threadContext, toolLog>>

MessageNext ==
    \/ MessageAgentStart
    \/ \E r \in Replies, accepted \in BOOLEAN : OrchestrateSettle(r, accepted)
    \/ \E accepted \in BOOLEAN : MessageAgentResume(accepted)
    \/ CheckpointRead
    \/ \E ok \in BOOLEAN : InvokeSettle(ok)
    \/ CallerResume

Next ==
    \/ InitializeStart
    \/ \E k \in 1..MaxCalls : FactorySettle(k)
    \/ ResolverFinish
    \/ \E cpArg \in {"local", "mongo"} : InitializeContinue(cpArg)
    \/ \E ok \in BOOLEAN : MongoConnectSettle(ok)
    \/ MessageNext
    \/ CtxMessageStart

Spec == Init /\ [][Next]_vars

\* initialize and its resolver alone.  Once Promise.allSettled has resolved
\* the event loop runs the resolver's continuation, hence the weak fairness
\* of ResolverFinish; nothing obliges a factory call to settle.
NextResolve ==
    \/ InitializeStart
    \/ \E k \in 1..MaxCalls : FactorySettle(k)
    \/ ResolverFinish
    \/ \E cpArg \in {"local", "mongo"} : InitializeContinue(cpArg)
    \/ \E ok \in BOOLEAN : MongoConnectSettle(ok)

SpecResolve == Init /\ [][NextResolve]_vars /\ WF_vars(ResolverFinish)

\* The effective list as a function of the arguments: a fresh Agent and
\* every (coreRegistry, allRegistry, toolNumbers) of the bounds
InitEff ==
    /\ variant \in Variants
    /\ toolsArr = <<>>
    /\ toolsMap = <<>>
    /\ toolMetadata = <<>>
    /\ systemPrompt = UnsetPrompt
    /\ checkPointSaver = "unset"
    /\ mongoClient = "unset"
    /\ pc = "idle"
    /\ runs = 0
    /\ calls = 0
    /\ checkPointer = "none"
    /\ eff = <<>>
    /\ results = <<>>
    /\ pendingMeta = <<>>
    /\ order = <<>>
    /\ returned = NotReturned
    /\ okTools = {}
    /\ reply = NoReply
    /\ picked = NotPicked
    /\ orchOut = NoOrch
    /\ turn = NoTurn
    /\ checkpointed = FALSE
    /\ initOutcome = "none"
    /\ agents = <<>>
    /\ objs = <<>>
    /\ inflight = {}
    /\ lastResp = NoResp
    /\ served = 0
    /\ passes = 0
    /\ others = 0
    /\ threadContext = NoContext
    /\ toolLog = <<>>
    /\ \E core \in CoreLists, all \in AllLists, sel \in SelLists :
          args = [core |-> core, all |-> all, sel |-> sel, set |-> TRUE]

NextEff == InitializeStartRecorded

SpecEff == InitEff /\ [][NextEff]_vars

\* orchestrate as a function of the loaded tools and the model reply: an
\* initialized Agent of an object-map class whose tools field holds any of
\* these maps (the field is public; see ToolMaps)
LoadableNames == {"X", "Y", "INVALID_TOOL:X"}

ToolMaps == {[n \in S |-> MkTool("caller", n)] : S \in SUBSET LoadableNames}

InitOrch ==
    /\ variant \in MapVariants
    /\ toolsArr = <<>>
    /\ toolsMap \in ToolMaps
    /\ toolMetadata = <<>>
    /\ systemPrompt = [set |-> TRUE, tools |-> <<>>]
    /\ checkPointSaver = "memory"
    /\ mongoClient = "unset"
    /\ pc = "idle"
    /\ runs = 1
    /\ calls = 0
    /\ checkPointer = "none"
    /\ eff = <<>>
    /\ results = <<>>
    /\ pendingMeta = <<>>
    /\ order = <<>>
    /\ returned = NotReturned
    /\ okTools = {}
    /\ args = NoArgs
    /\ reply = NoReply
    /\ picked = NotPicked
    /\ orchOut = NoOrch
    /\ turn = NoTurn
    /\ checkpointed = FALSE
    /\ initOutcome = "resolved"
    /\ agents = <<>>
    /\ objs = <<>>
    /\ inflight = {}
    /\ lastResp = NoResp
    /\ served = 0
    /\ passes = 0
    /\ others = 0
    /\ threadContext = NoContext
    /\ toolLog = <<>>

\* messageAgent calls on an initialized Agent, overlapping each other
NextOrch ==
    \/ MessageNext
    \/ OtherCallStart
    \/ OtherCallSettle

SpecOrch == InitOrch /\ [][NextOrch]_vars

\* ------------------------------------------------------------ HTTP server
\* The express server over the live-agent map.  It constructs Agents of the
\* injected-model class and awaits their initialize.

ThreadIds == {"t1", "t2"}

\* model providers a request can name (a supported one, an unsupported
\* one), and what a library caller can hand the constructor ("none": no
\* model, no provider credential)
Providers == {"anthropic", "other"}

Models == {"none", "anthropic"}

\* createModelFromConfig: a chat model, or the default branch throws
CreateModelFromConfig(provider) ==
    IF provider \in {"anthropic", "gemini"}
    THEN [throws |-> FALSE, model |-> provider, error |-> ""]
    ELSE [throws |-> TRUE, model |-> "none", error |-> "Unsupported model provider"]

\* a constructor that accepts a missing model
ConstructAnyway(model) ==
    [throws |-> FALSE, error |-> ""]

\* the constructor's model check: without a usable model it throws
ConstructAgent(model) ==
    IF model = "none"
    THEN [throws |-> TRUE, error |-> "Failed to initialize model"]
    ELSE [throws |-> FALSE, error |-> ""]

\* a freshly constructed Agent: no mongoClient, no checkPointSaver
NewAgent == [conn |-> "unset", saver |-> "unset"]

\* an existence check that finds nothing
HasNothing(map, t) == FALSE

\* agents.has(threadId)
Has(map, t) == t \in DOMAIN map

With(map, t, o) == [x \in DOMAIN map \cup {t} |-> IF x = t THEN o ELSE map[x]]

Without(map, t) == [x \in DOMAIN map \ {t} |-> map[x]]

Respond(kind, t, code, err) ==
    lastResp' = [kind |-> kind, tid |-> t, code |-> code, error |-> err]

\* a handler suspended at an await; id tells apart handlers suspended
\* alike (two DELETEs of one agent)
Suspended(kind, t, o, at) ==
    LET alike == {q.id : q \in {h \in inflight :
                      h.kind = kind /\ h.tid = t /\ h.obj = o}}
    IN [id |-> CHOOSE i \in 1..(Cardinality(alike) + 1) :
                   i \notin alike /\ \A j \in 1..(i - 1) : j \in alike,
        kind |-> kind, tid |-> t, obj |-> o, at |-> at]

libVars == <<agentVars, initVars, msgVars, pc, checkpointed, threadContext,
             toolLog>>

\* POST /agent/create up to its await of agent.initialize, which itself
\* runs up to the resolver's await
CreateRequest(t, wellFormed, provider) ==
    /\ served < MaxRequests
    /\ served' = served + 1
    /\ LET made == CreateModelFromConfig(provider)
           built == ConstructAgent(made.model)
       IN
       IF ~wellFormed
       THEN /\ Respond("create", t, 400, "required field missing")
            /\ UNCHANGED <<agents, objs, inflight>>
       ELSE IF Has(agents, t)
       THEN /\ Respond("create", t, 409, "Agent with this threadId already exists")
            /\ UNCHANGED <<agents, objs, inflight>>
       ELSE IF made.throws
       THEN /\ Respond("create", t, 500, made.error)
            /\ UNCHANGED <<agents, objs, inflight>>
       ELSE IF built.throws
       THEN /\ Respond("create", t, 500, built.error)
            /\ UNCHANGED <<agents, objs, inflight>>
       ELSE /\ objs' = Append(objs, NewAgent)
            /\ inflight' = inflight \cup
                   {Suspended("create", t, Len(objs) + 1, "resolver")}
            /\ UNCHANGED <<agents, lastResp>>
    /\ UNCHANGED libVars

\* the handler resumes after initialize has settled: lines 598-613
CreateFinish(r, outcome, err) ==
    /\ inflight' = inflight \ {r}
    /\ IF outcome = "resolved"
       THEN /\ agents' = With(agents, r.tid, r.obj)
            /\ Respond("create", r.tid, 201, "")
       ELSE /\ Respond("create", r.tid, 500, err)
            /\ UNCHANGED agents

\* the resolver returns inside initialize, which goes on to the checkpoint
\* saver: with "mongo" it suspends again at mongoClient.connect()
CreateAfterResolver(r, cpArg) ==
    /\ r \in inflight
    /\ r.kind = "create"
    /\ r.at = "resolver"
    /\ IF cpArg = "mongo"
       THEN /\ objs' = [objs EXCEPT ![r.obj].conn = "client"]
            /\ inflight' = (inflight \ {r}) \cup {[r EXCEPT !.at = "connecting"]}
            /\ UNCHANGED <<agents, lastResp>>
       ELSE /\ objs' = [objs EXCEPT ![r.obj].saver = "memory"]
            /\ CreateFinish(r, InitializeOutcome(TRUE), "")
    /\ UNCHANGED <<served, libVars>>

\* mongoClient.connect() settles and initialize settles after it
CreateConnectSettle(r, ok) ==
    /\ r \in inflight
    /\ r.kind = "create"
    /\ r.at = "connecting"
    /\ objs' = [objs EXCEPT ![r.obj] =
                   IF ok THEN [conn |-> "open", saver |-> "mongo"]
                   ELSE [conn |-> "failed", saver |-> @.saver]]
    /\ CreateFinish(r, InitializeOutcome(ok), "MongoDB connection failed")
    /\ UNCHANGED <<served, libVars>>

\* DELETE /agent/:threadId up to its await of mongoClient.close(), or to
\* its end when the agent has no mongoClient
DeleteRequest(t) ==
    /\ served < MaxRequests
    /\ served' = served + 1
    /\ IF t \notin DOMAIN agents
       THEN /\ Respond("delete", t, 404, "Agent not found")
            /\ UNCHANGED <<agents, inflight>>
       ELSE IF objs[agents[t]].conn # "unset"
       THEN /\ inflight' = inflight \cup
                   {Suspended("delete", t, agents[t], "closing")}
            /\ UNCHANGED <<agents, lastResp>>
       ELSE /\ agents' = Without(agents, t)
            /\ Respond("delete", t, 200, "")
            /\ UNCHANGED inflight
    /\ UNCHANGED <<objs, libVars>>

\* close() settles (a rejection is logged) and the handler deletes the
\* map entry of its thread id
DeleteCloseSettle(r, ok) ==
    /\ r \in inflight
    /\ r.kind = "delete"
    /\ objs' = [objs EXCEPT ![r.obj].conn = IF ok THEN "closed" ELSE "broken"]
    /\ agents' = Without(agents, r.tid)
    /\ inflight' = inflight \ {r}
    /\ Respond("delete", r.tid, 200, "")
    /\ UNCHANGED <<served, libVars>>

\* POST /send up to its await of agent.messageAgent
SendRequest(t, wellFormed) ==
    /\ served < MaxRequests
    /\ served' = served + 1
    /\ IF ~wellFormed
       THEN /\ Respond("send", t, 400, "required field missing")
            /\ UNCHANGED inflight
       ELSE IF t \notin DOMAIN agents
       THEN /\ Respond("send", t, 404, "Agent not found")
            /\ UNCHANGED inflight
       ELSE /\ inflight' = inflight \cup
                   {Suspended("send", t, agents[t], "messaging")}
            /\ UNCHANGED lastResp
    /\ UNCHANGED <<agents, objs, libVars>>

\* messageAgent and the stream settle: the reply is sent, or the catch
\* answers 500
SendSettle(r, ok) ==
    /\ r \in inflight
    /\ r.kind = "send"
    /\ inflight' = inflight \ {r}
    /\ IF ok THEN Respond("send", r.tid, 200, "")
       ELSE Respond("send", r.tid, 500, "Failed to process message")
    /\ UNCHANGED <<agents, objs, served, libVars>>

\* GET /agent/:threadId
GetRequest(t) ==
    /\ served < MaxRequests
    /\ served' = served + 1
    /\ IF t \in DOMAIN agents THEN Respond("get", t, 200, "")
       ELSE Respond("get", t, 404, "Agent not found")
    /\ UNCHANGED <<agents, objs, inflight, libVars>>

\* a caller of the library constructs an Agent itself
LibraryConstruct(model) ==
    /\ served < MaxRequests
    /\ served' = served + 1
    /\ LET built == ConstructAgent(model)
       IN IF built.throws
          THEN /\ Respond("construct", "none", 0, built.error)
               /\ UNCHANGED objs
          ELSE /\ objs' = Append(objs, NewAgent)
               /\ Respond("construct", "none", 0, "")
    /\ UNCHANGED <<agents, inflight, libVars>>

NextSrv ==
    \/ \E t \in ThreadIds, wellFormed \in BOOLEAN, provider \in Providers :
          CreateRequest(t, wellFormed, provider)
    \/ \E r \in inflight, cpArg \in {"local", "mongo"} : CreateAfterResolver(r, cpArg)
    \/ \E r \in inflight, ok \in BOOLEAN : CreateConnectSettle(r, ok)
    \/ \E t \in ThreadIds : DeleteRequest(t)
    \/ \E r \in inflight, ok \in BOOLEAN : DeleteCloseSettle(r, ok)
    \/ \E t \in ThreadIds, wellFormed \in BOOLEAN : SendRequest(t, wellFormed)
    \/ \E r \in inflight, ok \in BOOLEAN : SendSettle(r, ok)
    \/ \E t \in ThreadIds : GetRequest(t)
    \/ \E model \in Models : LibraryConstruct(model)

\* the server starts with an empty map
InitSrv ==
    /\ Init
    /\ variant = "inj"

SpecSrv == InitSrv /\ [][NextSrv]_vars

\* ---------------------------------------------------------------- createTool
\* calls of one tool in a behaviour
MaxToolCalls == 2

\* what an implementation can throw or reject with: an Error with or
\* without a message, a value without a message property, null, undefined
Thrown ==
    {[type |-> "Error", text |-> "boom"], [type |-> "Error", text |-> ""],
     [type |-> "string", text |-> "oops"], [type |-> "null", text |-> ""],
     [type |-> "undefined", text |-> ""]}

\* how a call of the implementation ends
ImplOutcomes ==
    {[how |-> "returns", v |-> [type |-> "string", text |-> "result"]]}
        \cup {[how |-> h, v |-> e] : h \in {"throws", "rejects"}, e \in Thrown}

\* error.message: reading a property of null or undefined throws a
\* TypeError; a string has no such property ("" stands for the falsy
\* undefined as well)
HasProperties(error) == error.type \notin {"null", "undefined"}

MessageOf(error) == IF error.type = "Error" THEN error.text ELSE ""

\* the catch of the tool's func: it builds the string it returns from
\* error.message, and an exception of the handler itself leaves the func
CatchHandler(error) ==
    IF HasProperties(error)
    THEN [settled |-> "resolved",
          value |-> "Error: " \o (IF MessageOf(error) # ""
                                  THEN MessageOf(error)
                                  ELSE "Unknown error occurred")]
    ELSE [settled |-> "rejected", value |-> "TypeError"]

\* func of the DynamicStructuredTool: return await implementation(args,
\* agent) inside try, so a synchronous throw and a rejection both reach
\* the catch
ToolFunc(o) ==
    IF o.how = "returns"
    THEN [settled |-> "resolved", value |-> o.v.text]
    ELSE CatchHandler(o.v)

\* the tool is called and its call settles
ToolCall(o) ==
    /\ Len(toolLog) < MaxToolCalls
    /\ toolLog' = Append(toolLog, [impl |-> o, result |-> ToolFunc(o)])
    /\ UNCHANGED <<agentVars, initVars, msgVars, pc, checkpointed,
                   threadContext, srvVars>>

NextTool == \E o \in ImplOutcomes : ToolCall(o)

SpecTool == Init /\ [][NextTool]_vars
\* ================================================================ claims

\* the tools the Agent holds, whichever shape its tools field has
ToolsHeld ==
    IF variant \in MapVariants
    THEN {toolsMap[n] : n \in DOMAIN toolsMap}
    ELSE Range(toolsArr)

\* positions of the effective list whose factory keeps its contract
SoundPositions == {k \in 1..Len(eff) : Sound(eff[k])}

SummariesOf(f) ==
    [i \in 1..Len(FactoryResult(f).schema) |-> Summary(FactoryResult(f).schema[i])]

\* C1: once the resolver of the first initialize has returned, the Agent
\* holds exactly the tools of the factories that succeeded: each of them,
\* retrievable by its name, and no tool of a failed factory.
C1_HoldsExactlyToolsOfSucceeded ==
    (pc = "resolved" /\ runs = 0) =>
        /\ ToolsHeld = UNION {Range(ToolsOf(eff[k])) : k \in SoundPositions}
        /\ \A k \in SoundPositions : \A t \in Range(ToolsOf(eff[k])) :
              \E h \in ToolsHeld : h.name = t.name

\* C2: a factory that fails (its call throws or the processing of its result
\* throws) contributes no tool and no metadata entry, and every sibling was
\* invoked and has settled when the resolver returns.
C2_FailedFactoryContributesNothing ==
    /\ \A t \in ToolsHeld : Sound(t.by)
    /\ \A i \in 1..Len(pendingMeta) :
          \E f \in Factories : Sound(f) /\ pendingMeta[i] \in Range(SummariesOf(f))
    /\ \A i \in 1..Len(toolMetadata) :
          i % 2 = 1 =>
              \E f \in Factories : Sound(f) /\ toolMetadata[i] \in Range(SummariesOf(f))
    /\ pc = "resolved" => Len(results) = Len(eff) /\ AllSettled

\* ---- C3, under SpecEff
\* [A[i] for i in S], an index outside A giving undefined
Comprehension(all, sel) ==
    [j \in 1..Len(sel) |->
        IF sel[j] + 1 \in 1..Len(all) THEN all[sel[j] + 1] ELSE "undefined"]

\* the elements of A whose index occurs in S, once each, in A's order
SelectedInOrder(all, sel) ==
    LET I == {i \in 1..Len(all) : \E j \in 1..Len(sel) : sel[j] = i - 1}
        Nth(k) == CHOOSE i \in I : Cardinality({j \in I : j < i}) = k - 1
    IN [k \in 1..Cardinality(I) |-> all[Nth(k)]]

\* C3 as stated: the invoked list is C ++ [A[i] for i in S] for every S,
\* unsorted, repeating or out of range.
C3_InvokedIsCorePlusComprehension ==
    (pc = "resolving" /\ args.set) =>
        eff = args.core \o Comprehension(args.all, args.sel)

\* C3 amended: the invoked list is C followed by the elements of A whose index
\* occurs in S, each once and in A's order, whatever the order, repetitions and
\* out-of-range entries of S.
C3_InvokedIsCorePlusFiltered ==
    (pc = "resolving" /\ args.set) =>
        /\ eff = args.core \o SelectedInOrder(args.all, args.sel)
        /\ Len(results) = Len(eff)

\* an unsorted selection of both elements of A has been resolved
C3_UnsortedSelectionResolved ==
    /\ pc = "resolving"
    /\ args.set
    /\ Len(args.sel) = 2
    /\ args.sel[1] > args.sel[2]
    /\ Len(eff) = Len(args.core) + 2

\* ---- C4
EntriesNamed(n) ==
    IF variant \in MapVariants
    THEN {m \in DOMAIN toolsMap : m = n}
    ELSE {i \in 1..Len(toolsArr) : toolsArr[i].name = n}

EntryNamed(n) ==
    IF variant \in MapVariants
    THEN toolsMap[n]
    ELSE toolsArr[CHOOSE i \in 1..Len(toolsArr) : toolsArr[i].name = n]

\* the position among ks whose call settled last
LastSettled(ks) ==
    LET at(k) == CHOOSE i \in 1..Len(order) : order[i] = k
    IN CHOOSE k \in ks : \A j \in ks : at(j) <= at(k)

\* C4: when two successful factories declare a tool of the same name, the
\* Agent holds exactly one entry of that name once the resolver has returned,
\* the one registered last.
C4_CollisionKeepsLastWriter ==
    (pc = "resolved" /\ runs = 0) =>
        \A n \in {"X", "Y"} :
            LET ks == {k \in SoundPositions : n \in Range(FactoryResult(eff[k]).tools)}
            IN Cardinality(ks) >= 2 =>
                  /\ Cardinality(EntriesNamed(n)) = 1
                  /\ EntryNamed(n) = MkTool(eff[LastSettled(ks)], n)

\* ---- C5
RECURSIVE SummariesInOrder(_)
SummariesInOrder(ord) ==
    IF Len(ord) = 0 THEN <<>>
    ELSE (IF Sound(eff[Head(ord)]) THEN SummariesOf(eff[Head(ord)]) ELSE <<>>)
         \o SummariesInOrder(Tail(ord))

\* C5: when the resolver returns, toolMetadata is the joined summaries of
\* exactly the successful factories, in the order their calls settled.
C5_MetadataOfSucceededInSettleOrder ==
    pc = "resolved" => toolMetadata = Join(SummariesInOrder(order), MetaSep)

ArrayTexts == {ArrayText(n) : n \in NameLists}

\* the model call failed or its content is no JSON
Unparsable(r) ==
    \/ r.kind = "reject"
    \/ r.kind = "content" /\ r.text \notin ArrayTexts /\ r.text # <<Tok("{"), Tok("}")>>

\* C7: on a failed model call or a reply that is no JSON, orchestrate yields
\* an empty tool selection and messageAgent completes with an empty tool set.
C7_UnparsableReplyGivesEmptySelection ==
    /\ (pc \in {"orchestrated", "reading", "invoking", "returned"} /\ Unparsable(reply)) =>
          /\ orchOut.kind \in {"tools", "agent"}
          /\ orchOut.tools = <<>>
    /\ (pc = "returned" /\ Unparsable(reply)) =>
          /\ turn.ret \in {"agent", "content"}
          /\ turn.tools = <<>>

\* ---- C8
\* C8: a reply that parses to the names N makes orchestrate look up a list as
\* long as N whose i-th element is the loaded Tool named N[i], or undefined
\* when no loaded tool has that name.
C8_PickedMirrorsNames ==
    \A n \in NameLists :
        (pc \in {"orchestrated", "reading", "invoking", "returned"}
            /\ reply.kind = "content" /\ reply.text = ArrayText(n)) =>
            /\ picked.made
            /\ Len(picked.tools) = Len(n)
            /\ \A i \in 1..Len(n) :
                  picked.tools[i] =
                      IF n[i] \in DOMAIN toolsMap THEN toolsMap[n[i]] ELSE Undefined

\* ---- C9, under SpecOrch
Sentinel(n) == "INVALID_TOOL:" \o n

SentinelNames == {Sentinel(n) : n \in {"X", "Y", "Z"}}

C10_TwoRunsHoldUnion ==
    (pc = "idle" /\ runs >= 2) => ToolsHeld = okTools

\* ---- C11
\* C11: when checkPointer is "mongo" and the connection to the persistence
\* backend fails, that initialize call fails for its caller with a thrown
\* error instead of completing normally.
C11_ConnectFailureIsThrown ==
    [][MongoConnectSettle(FALSE) => initOutcome' = "rejected"]_vars

\* ---- C12, under SpecSrv
\* an Agent whose initialize got as far as selecting a checkpoint saver
Initialized(o) == o.saver # "unset"

\* the create handler r sends its response in this step
CreateEnds(r) == r \in inflight /\ r.kind = "create" /\ r \notin inflight'

\* C12: POST /agent/create answers 201 and stores the agent only when the
\* agent's initialization succeeded; when it failed the answer is 500 with
\* the underlying message and the live-agent map is left unchanged.
C12_CreateAnswersByInitOutcome ==
    [][\A r \in inflight :
          CreateEnds(r) =>
              IF Initialized(objs'[r.obj])
              THEN lastResp'.code = 201 /\ agents' = With(agents, r.tid, r.obj)
              ELSE /\ lastResp'.code = 500
                   /\ lastResp'.error = "MongoDB connection failed"
                   /\ agents' = agents]_vars

\* ---- C13, under SpecSrv
\* C13 as stated: POST /agent/create for a thread id that has a live agent
\* is answered 409, constructs and initializes no Agent and leaves the map
\* and the existing agent unchanged.
C13_LiveThreadIs409 ==
    [][\A t \in ThreadIds, wellFormed \in BOOLEAN, provider \in Providers :
          (t \in DOMAIN agents /\ CreateRequest(t, wellFormed, provider)) =>
              /\ lastResp' = [kind |-> "create", tid |-> t, code |-> 409,
                              error |-> "Agent with this threadId already exists"]
              /\ UNCHANGED <<agents, objs, inflight>>]_vars

\* C13 amended: a POST /agent/create that passes the validation of its
\* required fields and names a thread id with a live agent is answered 409,
\* constructs and initializes no Agent and leaves the map and the existing
\* agent unchanged (a request failing validation is answered 400 first).
C13_WellFormedLiveThreadIs409 ==
    [][\A t \in ThreadIds, provider \in Providers :
          (t \in DOMAIN agents /\ CreateRequest(t, TRUE, provider)) =>
              /\ lastResp' = [kind |-> "create", tid |-> t, code |-> 409,
                              error |-> "Agent with this threadId already exists"]
              /\ UNCHANGED <<agents, objs, inflight>>]_vars

\* a create for a live thread id has just been answered 409
C13_DuplicateCreateRefused ==
    /\ lastResp.kind = "create"
    /\ lastResp.code = 409
    /\ lastResp.tid \in DOMAIN agents

\* ---- C14, under SpecSrv
\* C14: the map gains a thread id only by a create answered 201 and loses
\* it only by a DELETE answered 200; the DELETE has closed the persistence
\* connection of the agent it removes if that agent opened one; while the
\* id has no agent, POST /send and GET are answered 404 and POST
\* /agent/create is accepted.
C14_LiveBetweenCreateAndDelete ==
    [][\A t \in ThreadIds :
          /\ (t \notin DOMAIN agents /\ t \in DOMAIN agents') =>
                 (lastResp'.kind = "create" /\ lastResp'.tid = t /\ lastResp'.code = 201)
          /\ (lastResp' # lastResp /\ lastResp'.kind = "create" /\ lastResp'.tid = t
                 /\ lastResp'.code = 201) => t \in DOMAIN agents'
          /\ (t \in DOMAIN agents /\ t \notin DOMAIN agents') =>
                 /\ lastResp'.kind = "delete" /\ lastResp'.tid = t /\ lastResp'.code = 200
                 /\ objs'[agents[t]].conn # "open"
          /\ (served' # served /\ lastResp'.kind = "delete" /\ lastResp'.tid = t
                 /\ lastResp'.code = 200) => t \notin DOMAIN agents'
          /\ t \notin DOMAIN agents =>
                 /\ SendRequest(t, TRUE) => lastResp'.code = 404
                 /\ GetRequest(t) => lastResp'.code = 404
                 /\ CreateRequest(t, TRUE, "anthropic") => inflight' # inflight]_vars

\* ---- C15, under SpecSrv
\* C15: constructing an Agent without a usable model throws "Failed to
\* initialize model" to the caller: no Agent object comes to exist, none is
\* initialized and none is stored in the live-agent map.
C15_NoModelNoAgent ==
    [][LibraryConstruct("none") =>
          /\ lastResp'.error = "Failed to initialize model"
          /\ UNCHANGED <<agents, objs, inflight>>]_vars

\* a construction without a model has just thrown
C15_ConstructionThrew ==
    /\ lastResp.kind = "construct"
    /\ lastResp.error = "Failed to initialize model"
    /\ served > 0

\* ---- C20, under SpecSrv
\* C20: of the POST /agent/create requests carrying one thread id, at most
\* one is answered 201 while no DELETE for the id intervenes.  The map holds
\* an agent for the id from a 201 until the DELETE, so a create answered 201
\* must find no agent of its id in the map.
C20_OneCreateWinsPerThread ==
    [][\A r \in inflight :
          (CreateEnds(r) /\ lastResp'.code = 201) => r.tid \notin DOMAIN agents]_vars

\* ---- C16, under SpecResolve
\* every call of the effective list has settled
EverySettled ==
    /\ Len(results) = Len(eff)
    /\ \A i \in 1..Len(eff) : results[i] \in {"item", "null"}

\* C16: the resolver has started every factory call of the effective list
\* before it waits on any of them; it assigns toolMetadata and returns only
\* after every call has completed or failed, so it never returns while a
\* call is unsettled; and once every call has settled it eventually returns.
C16_ReturnsWhenAllSettled ==
    /\ [](pc = "resolving" => Len(results) = Len(eff))
    /\ []((pc = "resolving" /\ order = <<>>) =>
             \A i \in 1..Len(eff) : results[i] = "pending")
    /\ [](returned.done => EverySettled)
    /\ [][toolMetadata' # toolMetadata => EverySettled]_vars
    /\ ((pc = "resolving" /\ EverySettled) ~> returned.done)

\* the resolver has returned after two calls that settled in the reverse
\* of their order in the effective list
C16_ReturnedAfterOutOfOrderSettles ==
    /\ returned.done
    /\ Len(eff) = 2
    /\ order = <<2, 1>>

\* ---- C17
\* the messageAgent call in flight has got past its start
InCall == variant \in MapVariants /\ pc \in {"orchestrating", "orchestrated", "reading", "invoking", "returned"}

\* C17: each messageAgent call makes exactly one orchestration pass, one
\* model call by orchestrate and no retry; the orchestrator starts
\* resolving when the message arrives and stops when that call settles,
\* whether the pass succeeded or failed.
C17_OnePassPerMessage ==
    /\ [](InCall => passes = 1)
    /\ [](~InCall => passes = 0)
    /\ [][(pc = "orchestrating" /\ pc' # pc) => pc' = "orchestrated"]_vars
    /\ [][(pc' = "orchestrating" /\ pc # pc') => pc = "idle"]_vars

\* a call has returned whose one pass failed
C17_ReturnedAfterFailedPass ==
    /\ pc = "returned"
    /\ reply.kind # "none"
    /\ ~picked.made
    /\ passes = 1

\* ---- C18, under SpecOrch
\* C18: once initialization has finished no orchestrate or messageAgent
\* call changes the tool collection or the toolMetadata string, whatever
\* the model replies and however the calls on the Agent overlap; they are
\* written only while the resolver runs.
C18_MessagesLeaveToolsAlone ==
    [][(toolsArr' # toolsArr \/ toolsMap' # toolsMap \/ toolMetadata' # toolMetadata)
          => pc = "resolving"]_vars

\* a call has returned with fewer tools than the Agent holds while another
\* call is in flight
C18_SubsetPickedWhileOverlapping ==
    /\ pc = "returned"
    /\ others > 0
    /\ picked.made
    /\ Len(picked.tools) < Cardinality(DOMAIN toolsMap)

\* ---- C19
\* the load of factory f fails on an Agent of class v: its call throws, or
\* the callback throws while taking its result over (pushing onto a tools
\* field that is no array, reading a null schema entry)
LoadFails(v, f) ==
    \/ FactoryResult(f).throws
    \/ v \in MapVariants
    \/ NullItem \in Range(FactoryResult(f).schema)

C21_PromptOnlyWithoutSavedState ==
    [][/\ (pc = "reading" /\ checkPointSaver # "unset" /\ pc' # "reading")
            => pc' = "invoking"
       /\ (pc = "invoking" /\ pc' = "returned" /\ turn'.ret = "content")
            => turn'.sent = IF checkpointed THEN <<"human">>
                                            ELSE <<"system", "human">>
       /\ InvokeSettle(TRUE) => turn'.ret = "content"]_vars

\* ---- C22
\* C22: in the thread-context class no thread context is set while neither
\* initialize nor messageAgent is in flight: each has cleared the context
\* it set by the time it ends, on its success and on its error paths.
C22_NoContextWhileIdle ==
    (variant = "ctx" /\ pc = "idle") => threadContext = NoContext

\* ---- C23, under SpecTool
\* C23: a tool made by createTool never propagates an error of its
\* implementation: a call whose implementation threw or rejected resolves
\* to "Error: <message>", or to "Error: Unknown error occurred" when the
\* error has no message.
C23_ImplementationErrorBecomesString ==
    \A i \in 1..Len(toolLog) :
        toolLog[i].impl.how # "returns" =>
            /\ toolLog[i].result.settled = "resolved"
            /\ toolLog[i].result.value =
                   IF toolLog[i].impl.v.type = "Error" /\ toolLog[i].impl.v.text # ""
                   THEN "Error: " \o toolLog[i].impl.v.text
                   ELSE "Error: Unknown error occurred"

====
